---- MODULE Spec2Model ----
(***************************************************************************)
(* Model of the Global Launch Options plugin (src/frontend/index.tsx) and   *)
(* of the cached configuration of its backend variant                      *)
(* (src/unnamed/part_000).                                                 *)
(*                                                                         *)
(* Strings are sequences of one-character strings, so that split, trim,    *)
(* the whitespace tokenizer and join are computed character by character   *)
(* as the JavaScript built-ins compute them.                               *)
(***************************************************************************)
EXTENDS Integers, Sequences, FiniteSets

(***************************************************************************)
(* String primitives used by parseLaunchOptions / mergeLaunchOptions.      *)
(***************************************************************************)

\* The reserved literal '%command%' (index.tsx:104).
PLACEHOLDER == <<"%", "c", "o", "m", "m", "a", "n", "d", "%">>

\* Characters matched by \s and removed by String.prototype.trim.
IsSpace(c) == c \in {" ", "\t"}

\* s.startsWith(p, i - 1), 1-based i.
MatchAt(s, p, i) ==
    /\ i + Len(p) - 1 <= Len(s)
    /\ \A k \in 1..Len(p) : s[i + k - 1] = p[k]

\* s.indexOf(p) + 1 (1-based), 0 when p does not occur in s.
IndexOf(s, p) ==
    LET hits == {i \in 1..Len(s) : MatchAt(s, p, i)}
    IN  IF hits = {} THEN 0 ELSE CHOOSE i \in hits : \A j \in hits : i <= j

\* s.includes(p)
Includes(s, p) == IndexOf(s, p) # 0

\* s.split(sep) for a non-empty literal separator: leftmost, non-overlapping.
RECURSIVE Split(_, _)
Split(s, sep) ==
    LET i == IndexOf(s, sep)
    IN  IF i = 0 THEN <<s>>
        ELSE <<SubSeq(s, 1, i - 1)>> \o Split(SubSeq(s, i + Len(sep), Len(s)), sep)

\* s.trim()
RECURSIVE TrimLeft(_)
TrimLeft(s) ==
    IF s # <<>> /\ IsSpace(Head(s)) THEN TrimLeft(Tail(s)) ELSE s

RECURSIVE TrimRight(_)
TrimRight(s) ==
    IF s # <<>> /\ IsSpace(s[Len(s)]) THEN TrimRight(SubSeq(s, 1, Len(s) - 1)) ELSE s

Trim(s) == TrimRight(TrimLeft(s))

\* s.split(/\s+/): every maximal run of whitespace is one separator; a leading
\* or trailing run yields an empty first or last element, "" yields [""].
RECURSIVE SplitWs(_)
SplitWs(s) ==
    LET ws == {i \in 1..Len(s) : IsSpace(s[i])}
    IN  IF ws = {} THEN <<s>>
        ELSE LET i == CHOOSE x \in ws : \A y \in ws : x <= y
                 rest == SubSeq(s, i + 1, Len(s))
             IN  <<SubSeq(s, 1, i - 1)>> \o SplitWs(TrimLeft(rest))

\* arr.filter(p => p.length > 0)
RECURSIVE FilterNonEmpty(_)
FilterNonEmpty(arr) ==
    IF arr = <<>> THEN <<>>
    ELSE (IF Len(Head(arr)) > 0 THEN <<Head(arr)>> ELSE <<>>)
         \o FilterNonEmpty(Tail(arr))

\* arr.join(' ')
RECURSIVE Join(_)
Join(arr) ==
    IF arr = <<>> THEN <<>>
    ELSE IF Len(arr) = 1 THEN arr[1]
    ELSE arr[1] \o <<" ">> \o Join(Tail(arr))

\* x.trim().split(/\s+/).filter(p => p.length > 0)
Tokenize(x) == FilterNonEmpty(SplitWs(Trim(x)))

(***************************************************************************)
(* Option Parser and Option Merger.                                        *)
(***************************************************************************)

\* Mutant: the multi-placeholder branch glues the remaining fragments together
\* without the single space (parts.slice(1).join('')).
RECURSIVE Concat(_)
Concat(arr) == IF arr = <<>> THEN <<>> ELSE Head(arr) \o Concat(Tail(arr))

parseLaunchOptions_glued(options) ==
    IF Trim(options) = <<>>
    THEN [preCommand |-> <<>>, postCommand |-> <<>>, hasCommand |-> FALSE]
    ELSE LET parts == Split(options, PLACEHOLDER)
         IN  IF Len(parts) = 1
             THEN [preCommand |-> <<>>, postCommand |-> Tokenize(parts[1]),
                   hasCommand |-> FALSE]
             ELSE [preCommand |-> Tokenize(parts[1]),
                   postCommand |-> Tokenize(Concat(Tail(parts))),
                   hasCommand |-> TRUE]

\* Mutant: the no-placeholder branch drops the tokens instead of treating them
\* as post-command arguments.
parseLaunchOptions_dropPost(options) ==
    IF Trim(options) = <<>>
    THEN [preCommand |-> <<>>, postCommand |-> <<>>, hasCommand |-> FALSE]
    ELSE LET parts == Split(options, PLACEHOLDER)
         IN  IF Len(parts) = 1
             THEN [preCommand |-> Tokenize(parts[1]), postCommand |-> <<>>,
                   hasCommand |-> FALSE]
             ELSE [preCommand |-> Tokenize(parts[1]),
                   postCommand |-> Tokenize(Join(Tail(parts))),
                   hasCommand |-> TRUE]

\* parseLaunchOptions(options): ParsedLaunchOptions
parseLaunchOptions(options) ==
    IF Trim(options) = <<>>
    THEN [preCommand |-> <<>>, postCommand |-> <<>>, hasCommand |-> FALSE]
    ELSE LET parts == Split(options, PLACEHOLDER)
         IN  IF Len(parts) = 1
             THEN [preCommand |-> <<>>,
                   postCommand |-> Tokenize(parts[1]),
                   hasCommand |-> FALSE]
             ELSE IF Len(parts) = 2
             THEN [preCommand |-> Tokenize(parts[1]),
                   postCommand |-> Tokenize(parts[2]),
                   hasCommand |-> TRUE]
             ELSE [preCommand |-> Tokenize(parts[1]),
                   postCommand |-> Tokenize(Join(Tail(parts))),
                   hasCommand |-> TRUE]

\* Mutant: the two strings are tokenized and concatenated, each keeping its own
\* placeholder.
mergeLaunchOptions_concat(originalOptions, globalOptions) ==
    LET original == parseLaunchOptions(originalOptions)
        global == parseLaunchOptions(globalOptions)
        ph(p) == IF p.hasCommand THEN <<PLACEHOLDER>> ELSE <<>>
    IN  Join(original.preCommand \o ph(original) \o original.postCommand
             \o global.preCommand \o ph(global) \o global.postCommand)

\* Mutant: global parts are put in front of the original's.
mergeLaunchOptions_globalFirst(originalOptions, globalOptions) ==
    LET original == parseLaunchOptions(originalOptions)
        global == parseLaunchOptions(globalOptions)
        combinedPreCommand == global.preCommand \o original.preCommand
        combinedPostCommand == global.postCommand \o original.postCommand
        r1 == IF Len(combinedPreCommand) > 0 THEN Join(combinedPreCommand) ELSE <<>>
        r2 == IF original.hasCommand \/ global.hasCommand \/ Len(combinedPreCommand) > 0
              THEN r1 \o (IF r1 # <<>> THEN <<" ">> ELSE <<>>) \o PLACEHOLDER
              ELSE r1
    IN  IF Len(combinedPostCommand) > 0
        THEN r2 \o (IF r2 # <<>> THEN <<" ">> ELSE <<>>) \o Join(combinedPostCommand)
        ELSE r2

\* Mutant: the placeholder is always emitted.
mergeLaunchOptions_alwaysCommand(originalOptions, globalOptions) ==
    LET original == parseLaunchOptions(originalOptions)
        global == parseLaunchOptions(globalOptions)
        combinedPreCommand == original.preCommand \o global.preCommand
        combinedPostCommand == original.postCommand \o global.postCommand
        r1 == IF Len(combinedPreCommand) > 0 THEN Join(combinedPreCommand) ELSE <<>>
        r2 == r1 \o (IF r1 # <<>> THEN <<" ">> ELSE <<>>) \o PLACEHOLDER
    IN  IF Len(combinedPostCommand) > 0
        THEN r2 \o (IF r2 # <<>> THEN <<" ">> ELSE <<>>) \o Join(combinedPostCommand)
        ELSE r2

\* mergeLaunchOptions(originalOptions, globalOptions): string
\* r1, r2 and the result are the values of `result` after each of the three
\* conditional appends.
mergeLaunchOptions(originalOptions, globalOptions) ==
    LET original == parseLaunchOptions(originalOptions)
        global == parseLaunchOptions(globalOptions)
        combinedPreCommand == original.preCommand \o global.preCommand
        combinedPostCommand == original.postCommand \o global.postCommand
        r1 == IF Len(combinedPreCommand) > 0 THEN Join(combinedPreCommand) ELSE <<>>
        r2 == IF original.hasCommand \/ global.hasCommand \/ Len(combinedPreCommand) > 0
              THEN r1 \o (IF r1 # <<>> THEN <<" ">> ELSE <<>>) \o PLACEHOLDER
              ELSE r1
    IN  IF Len(combinedPostCommand) > 0
        THEN r2 \o (IF r2 # <<>> THEN <<" ">> ELSE <<>>) \o Join(combinedPostCommand)
        ELSE r2

(***************************************************************************)
(* Bounds and input sets.                                                  *)
(***************************************************************************)

\* Inputs of the parser/merger are concatenations of at most MaxPieces
\* (original) and MaxGlobalPieces (global) pieces.
MaxPieces == 4
MaxGlobalPieces == 3

\* Bounds of the launch model: on the environment's events (launch detections,
\* ContinueGameAction invocations, settings edits) and on the platform calls
\* that fail.
MaxEvents == 4
MaxFaults == 1

Pieces ==
    { <<" ">>, <<"A">>, <<"B">>, PLACEHOLDER }

RECURSIVE StringsUpTo(_)
StringsUpTo(n) ==
    IF n = 0 THEN {<<>>}
    ELSE LET shorter == StringsUpTo(n - 1)
         IN  shorter \cup {s \o p : s \in shorter, p \in Pieces}

\* The strings of the documented examples.
\* "   "
ExWhitespace ==
    <<" ", " ", " ">>
\* "A B %command% C"
ExABC ==
    <<"A", " ", "B", " ", "%", "c", "o", "m", "m", "a", "n", "d", "%", " ", "C">>
\* "%command% %command% X"
ExDouble ==
    <<"%", "c", "o", "m", "m", "a", "n", "d", "%", " ", "%", "c", "o", "m", "m", "a", "n", "d", "%", " ", "X">>
\* "-novid"
ExNovid ==
    <<"-", "n", "o", "v", "i", "d">>
\* "gamemoderun %command% -windowed"
ExGamemode ==
    <<"g", "a", "m", "e", "m", "o", "d", "e", "r", "u", "n", " ", "%", "c", "o", "m", "m", "a", "n", "d", "%", " ", "-", "w", "i", "n", "d", "o", "w", "e", "d">>
\* "MANGOHUD=1 %command%"
ExMangoHud ==
    <<"M", "A", "N", "G", "O", "H", "U", "D", "=", "1", " ", "%", "c", "o", "m", "m", "a", "n", "d", "%">>
\* "MANGOHUD=1 %command% -novid"
ExMergedNovid ==
    <<"M", "A", "N", "G", "O", "H", "U", "D", "=", "1", " ", "%", "c", "o", "m", "m", "a", "n", "d", "%", " ", "-", "n", "o", "v", "i", "d">>
\* "gamemoderun MANGOHUD=1 %command% -windowed"
ExMergedGamemode ==
    <<"g", "a", "m", "e", "m", "o", "d", "e", "r", "u", "n", " ", "M", "A", "N", "G", "O", "H", "U", "D", "=", "1", " ", "%", "c", "o", "m", "m", "a", "n", "d", "%", " ", "-", "w", "i", "n", "d", "o", "w", "e", "d">>

\* Two overlapping occurrences of the literal: only the first is one.
\* "%command%command%"
ExOverlap ==
    <<"%", "c", "o", "m", "m", "a", "n", "d", "%", "c", "o", "m", "m", "a", "n", "d", "%">>
\* "%comm%command%and%"
ExNested ==
    <<"%", "c", "o", "m", "m", "%", "c", "o", "m", "m", "a", "n", "d", "%", "a", "n", "d", "%">>

ExampleOriginals ==
    {ExWhitespace, ExABC, ExDouble, ExNovid, ExGamemode, ExOverlap, ExNested}
ExampleGlobals == {ExMangoHud}

\* Concrete strings of the launch model.
EmptyString == <<>>
Novid == <<"-", "n", "o", "v", "i", "d">>
Wrapped == <<"g", "m", "r">> \o <<" ">> \o PLACEHOLDER \o <<" ">> \o <<"-", "w">>
MangoHud == <<"M", "=", "1">> \o <<" ">> \o PLACEHOLDER
Excl570and730 == <<"5", "7", "0", ",", " ", "7", "3", "0", " ">>

\* null, where a string or a result is expected.
NULL == "null"
\* null in currentLaunchingAppId: like the app id 0 it fails the `&&` test of
\* the wrapper (no app has id 0).
NoApp == 0
\* parseInt(null)
NaN == -1
\* localStorage holds no "global_launch_options.config" item.
NoStoredConfig == [none |-> TRUE]
\* No launch-detection event yet.
NoDetection == [none |-> TRUE]

AppIds == {440, 730}
InitialOptions == { [a \in AppIds |-> IF a = 440 THEN Novid ELSE Wrapped] }
GlobalOptionChoices == {EmptyString, MangoHud}
ExcludedChoices == {EmptyString, Excl570and730}
LaunchActions == {"LaunchApp", "ValidateApp"}
ContinueActions == {"CreatingProcess", "LaunchingProcess"}
GameActionIds == {7}

(***************************************************************************)
(* State.                                                                  *)
(***************************************************************************)
VARIABLES
    \* --- plugin (index.tsx) ---
    hooksInjected,          \* let hooksInjected (line 14)
    pluginConfig,           \* let pluginConfig (line 22)
    currentLaunchingAppId,  \* closure variable (line 186)
    originalLaunchOptions,  \* closure variable (line 187)
    calls,                  \* invocations of the ContinueGameAction wrapper, in order
    fetches,                \* getCurrentLaunchOptions calls: promise + registration
    timers,                 \* armed setTimeout callbacks, in arming order
    \* --- platform ---
    steamApi,               \* which SteamClient.Apps entry points exist
    detectCallbacks,        \* callbacks registered with RegisterForGameActionUserRequest
    wrapDepth,              \* how many wrappers sit on ContinueGameAction
    steamOptions,           \* stored launch options per app
    localStorage,           \* "global_launch_options.config"
    \* --- observation ---
    initialOptions,         \* steamOptions at start
    setterLog,              \* calls of SetAppLaunchOptions, in order
    detections,             \* launch-detection events delivered to the callback
    lastDetection,          \* the latest of them
    counters,               \* number of environment events so far
    \* --- parser/merger harness ---
    argOriginal, argGlobal, retParsed, retMerged, purePc

pluginVars == <<hooksInjected, pluginConfig, currentLaunchingAppId, originalLaunchOptions,
                calls, fetches, timers>>
platformVars == <<steamApi, detectCallbacks, wrapDepth, steamOptions, localStorage>>
observeVars == <<initialOptions, setterLog, detections, lastDetection, counters>>
launchVars == <<pluginVars, platformVars, observeVars>>

\* --- remote-cached configuration (src/unnamed/part_000) ---
VARIABLES
    configCache,            \* let configCache (line 7)
    lastConfigFetch,        \* let lastConfigFetch (line 8)
    clock,                  \* Date.now(), in ms since the plugin was loaded
    configCalls,            \* invocations of fetchCurrentConfig, in order
    backend                 \* what Backend.get_hook_config answers at present

cacheVars == <<configCache, lastConfigFetch, clock, configCalls, backend>>

\* The variables of the two harnesses, which no launch action touches.
pureVars == <<argOriginal, argGlobal, retParsed, retMerged, purePc, cacheVars>>
vars == <<launchVars, pureVars>>

(***************************************************************************)
(* Helpers of the launch model.                                            *)
(***************************************************************************)

\* setTimeout delays, in milliseconds.
FETCH_TIMEOUT == 5000
RESTORE_DELAY == 20000

DigitChars == <<"0", "1", "2", "3", "4", "5", "6", "7", "8", "9">>

\* Number.prototype.toString() of a non-negative integer.
RECURSIVE ToString(_)
ToString(n) ==
    IF n < 10 THEN <<DigitChars[n + 1]>>
    ELSE ToString(n \div 10) \o <<DigitChars[(n % 10) + 1]>>

\* parseInt of the value held in currentLaunchingAppId: the number itself,
\* NaN for null.
ParseInt(x) == IF x = NoApp THEN NaN ELSE x

RECURSIVE MapTrim(_)
MapTrim(arr) == IF arr = <<>> THEN <<>> ELSE <<Trim(Head(arr))>> \o MapTrim(Tail(arr))

\* Mutant: the entries are compared untrimmed.
ExcludedAppIds_untrimmed(config) ==
    IF config.excludedGameIds # <<>>
    THEN Split(config.excludedGameIds, <<",">>)
    ELSE <<>>

\* config.excludedGameIds ? config.excludedGameIds.split(',').map(id => id.trim()) : []
ExcludedAppIds(config) ==
    IF config.excludedGameIds # <<>>
    THEN MapTrim(Split(config.excludedGameIds, <<",">>))
    ELSE <<>>

\* excludedAppIds.includes(appId.toString())
IsExcluded(config, appId) ==
    \E k \in 1..Len(ExcludedAppIds(config)) : ExcludedAppIds(config)[k] = ToString(appId)

\* getCurrentConfig(): the module-level object itself, so a field read later
\* sees later edits.
getCurrentConfig == pluginConfig

DefaultConfig == [globalLaunchOptions |-> <<>>, excludedGameIds |-> <<>>]

\* pluginConfig = { ...pluginConfig, ...storedConfig }
LoadConfig(stored) == IF stored = NoStoredConfig THEN DefaultConfig ELSE stored

\* What the captured original ContinueGameAction returns for its arguments.
OriginalResult(gameActionId, action) == <<"original", gameActionId, action>>

\* Mutant: the wrapper returns without delegating.
CallOriginal_skip(c) == [c EXCEPT !.status = "returned"]

\* Mutant: the wrapper delegates with the tag it intercepts instead of the one
\* it was given.
CallOriginal_fixedTag(c) ==
    [c EXCEPT !.status = "returned",
              !.delegated = Append(@, <<c.gameActionId, "CreatingProcess">>),
              !.returned = OriginalResult(c.gameActionId, "CreatingProcess")]

\* return originalContinueGameAction.call(this, gameActionId, action)
CallOriginal(c) ==
    [c EXCEPT !.status = "returned",
              !.delegated = Append(@, <<c.gameActionId, c.action>>),
              !.returned = OriginalResult(c.gameActionId, c.action)]

\* The platform's store after SetAppLaunchOptions(id, options) returned.
StoreOptions(store, id, options) ==
    IF id \in DOMAIN store THEN [store EXCEPT ![id] = options] ELSE store

\* Mutant: the restoration re-applies the merged string.
RestoreTimer_merged(appIdToRestore, optionsToRestore, merged, i) ==
    [kind |-> "restore", delay |-> RESTORE_DELAY, appIdToRestore |-> appIdToRestore,
     optionsToRestore |-> merged, call |-> i, fetch |-> 0]

\* setTimeout(() => SetAppLaunchOptions(parseInt(appIdToRestore), optionsToRestore), 20000)
RestoreTimer(appIdToRestore, optionsToRestore, merged, i) ==
    [kind |-> "restore", delay |-> RESTORE_DELAY, appIdToRestore |-> appIdToRestore,
     optionsToRestore |-> optionsToRestore, call |-> i, fetch |-> 0]

\* setTimeout(() => { unregister.unregister(); reject(...) }, 5000)
FetchTimer(f, i) ==
    [kind |-> "fetchTimeout", delay |-> FETCH_TIMEOUT, appIdToRestore |-> NoApp,
     optionsToRestore |-> <<>>, call |-> i, fetch |-> f]

\* Timers armed earlier with a delay no longer than timers[i]'s are due first.
CanFire(i) == \A j \in 1..(i - 1) : timers[j].delay > timers[i].delay

RemoveAt(seq, i) == SubSeq(seq, 1, i - 1) \o SubSeq(seq, i + 1, Len(seq))

Fault(throws) == IF throws THEN 1 ELSE 0

\* Environment events so far.
EventCount == counters.detect + counters.continue + counters.settings + counters.inject

(***************************************************************************)
(* Launch model: initial state.                                            *)
(***************************************************************************)

StoredConfigs ==
    {NoStoredConfig} \cup [globalLaunchOptions : GlobalOptionChoices, excludedGameIds : ExcludedChoices]

\* The state after definePlugin has loaded the configuration and before the
\* deferred injectLaunchHooks has run.
InitLaunch ==
    /\ hooksInjected = FALSE
    /\ localStorage \in StoredConfigs
    /\ pluginConfig = LoadConfig(localStorage)
    /\ currentLaunchingAppId = NoApp
    /\ originalLaunchOptions = NULL
    /\ calls = <<>>
    /\ fetches = <<>>
    /\ timers = <<>>
    /\ steamApi \in [register : BOOLEAN, continue : BOOLEAN]
    /\ detectCallbacks = 0
    /\ wrapDepth = 0
    /\ steamOptions \in InitialOptions
    /\ initialOptions = steamOptions
    /\ setterLog = <<>>
    /\ detections = {}
    /\ lastDetection = NoDetection
    /\ counters = [detect |-> 0, continue |-> 0, settings |-> 0, faults |-> 0, inject |-> 0]

PureOff ==
    /\ argOriginal = <<>>
    /\ argGlobal = <<>>
    /\ retParsed = NULL
    /\ retMerged = NULL
    /\ purePc = "off"

\* null in configCache.
NoCache == [none |-> TRUE]

CacheOff ==
    /\ configCache = NoCache
    /\ lastConfigFetch = 0
    /\ clock = 0
    /\ configCalls = <<>>
    /\ backend = DefaultConfig

Init == InitLaunch /\ PureOff /\ CacheOff

(***************************************************************************)
(* Launch model: operations.                                               *)
(***************************************************************************)

\* Mutant: a missing launch-detection entry point aborts the installer before
\* anything is installed.
injectLaunchHooks_abortOnMissing ==
    IF ~hooksInjected /\ ~steamApi.register
    THEN UNCHANGED vars
    ELSE /\ IF hooksInjected
            THEN /\ EventCount < MaxEvents
                 /\ counters' = [counters EXCEPT !.inject = @ + 1]
                 /\ UNCHANGED <<hooksInjected, detectCallbacks, wrapDepth>>
            ELSE /\ detectCallbacks' = detectCallbacks + 1
                 /\ wrapDepth' = IF steamApi.continue THEN wrapDepth + 1 ELSE wrapDepth
                 /\ hooksInjected' = TRUE
                 /\ UNCHANGED counters
         /\ UNCHANGED <<pluginConfig, currentLaunchingAppId, originalLaunchOptions, calls,
                        fetches, timers, steamApi, steamOptions, localStorage,
                        initialOptions, setterLog, detections, lastDetection, pureVars>>

\* Mutant: the installer ignores the flag and installs again.
injectLaunchHooks_rewrap ==
    /\ hooksInjected => EventCount < MaxEvents
    /\ counters' = IF hooksInjected THEN [counters EXCEPT !.inject = @ + 1] ELSE counters
    /\ detectCallbacks' = IF steamApi.register THEN detectCallbacks + 1 ELSE detectCallbacks
    /\ wrapDepth' = IF steamApi.continue THEN wrapDepth + 1 ELSE wrapDepth
    /\ hooksInjected' = TRUE
    /\ UNCHANGED <<pluginConfig, currentLaunchingAppId, originalLaunchOptions, calls,
                   fetches, timers, steamApi, steamOptions, localStorage,
                   initialOptions, setterLog, detections, lastDetection, pureVars>>

\* injectLaunchHooks().  counters.inject counts the invocations made while the
\* flag is set.
injectLaunchHooks ==
    /\ IF hooksInjected
       THEN /\ EventCount < MaxEvents
            /\ counters' = [counters EXCEPT !.inject = @ + 1]
            /\ UNCHANGED <<hooksInjected, detectCallbacks, wrapDepth>>
       ELSE /\ detectCallbacks' = IF steamApi.register THEN detectCallbacks + 1
                                  ELSE detectCallbacks
            /\ wrapDepth' = IF steamApi.continue THEN wrapDepth + 1 ELSE wrapDepth
            /\ hooksInjected' = TRUE
            /\ UNCHANGED counters
    /\ UNCHANGED <<pluginConfig, currentLaunchingAppId, originalLaunchOptions, calls,
                   fetches, timers, steamApi, steamOptions, localStorage,
                   initialOptions, setterLog, detections, lastDetection, pureVars>>

\* Mutant: a detection does not overwrite an id that is already pending.
LaunchDetect_firstWins(appId, action) ==
    /\ detectCallbacks > 0
    /\ EventCount < MaxEvents
    /\ counters' = [counters EXCEPT !.detect = @ + 1]
    /\ lastDetection' = [appId |-> appId, action |-> action,
                         excludedGameIds |-> pluginConfig.excludedGameIds,
                         readConfig |-> (action = "LaunchApp")]
    /\ detections' = detections \cup {lastDetection'}
    /\ IF action # "LaunchApp" \/ currentLaunchingAppId # NoApp
       THEN UNCHANGED currentLaunchingAppId
       ELSE currentLaunchingAppId' =
                IF IsExcluded(getCurrentConfig, appId) THEN NoApp ELSE appId
    /\ UNCHANGED <<hooksInjected, pluginConfig, originalLaunchOptions, calls, fetches,
                   timers, platformVars, initialOptions, setterLog, pureVars>>

\* Mutant: the callback handles every action kind as a launch.
LaunchDetect_noFilter(appId, action) ==
    /\ detectCallbacks > 0
    /\ EventCount < MaxEvents
    /\ counters' = [counters EXCEPT !.detect = @ + 1]
    /\ lastDetection' = [appId |-> appId, action |-> action,
                         excludedGameIds |-> pluginConfig.excludedGameIds,
                         readConfig |-> TRUE]
    /\ detections' = detections \cup {lastDetection'}
    /\ currentLaunchingAppId' =
           IF IsExcluded(getCurrentConfig, appId) THEN NoApp ELSE appId
    /\ UNCHANGED <<hooksInjected, pluginConfig, originalLaunchOptions, calls, fetches,
                   timers, platformVars, initialOptions, setterLog, pureVars>>

\* The callback registered with RegisterForGameActionUserRequest.  readConfig:
\* the callback got as far as getCurrentConfig().
LaunchDetect(appId, action) ==
    /\ detectCallbacks > 0
    /\ EventCount < MaxEvents
    /\ counters' = [counters EXCEPT !.detect = @ + 1]
    /\ lastDetection' = [appId |-> appId, action |-> action,
                         excludedGameIds |-> pluginConfig.excludedGameIds,
                         readConfig |-> (action = "LaunchApp")]
    /\ detections' = detections \cup {lastDetection'}
    /\ IF action # "LaunchApp"
       THEN UNCHANGED currentLaunchingAppId
       ELSE currentLaunchingAppId' =
                IF IsExcluded(getCurrentConfig, appId) THEN NoApp ELSE appId
    /\ UNCHANGED <<hooksInjected, pluginConfig, originalLaunchOptions, calls, fetches,
                   timers, platformVars, initialOptions, setterLog, pureVars>>

\* Mutant: the restoration is scheduled outside the try block, so it is armed
\* although the apply call threw.
ResumeResolved_armsAnyway(i, value, throws, armed) ==
    LET merged == mergeLaunchOptions(value, getCurrentConfig.globalLaunchOptions)
        id == ParseInt(currentLaunchingAppId)
    IN  /\ setterLog' = Append(setterLog,
                               [appId |-> id, options |-> merged, by |-> "apply",
                                call |-> i, threw |-> throws])
        /\ steamOptions' = IF throws THEN steamOptions
                           ELSE StoreOptions(steamOptions, id, merged)
        /\ timers' = Append(armed, RestoreTimer(currentLaunchingAppId, value, merged, i))
        /\ currentLaunchingAppId' = NoApp
        /\ originalLaunchOptions' = NULL
        /\ calls' = [calls EXCEPT ![i] = CallOriginal(@)]

\* The handler after `await getCurrentLaunchOptions(...)` resolved with value:
\* merge, apply, schedule the restoration, clean up, delegate.  throws: the
\* apply call of SetAppLaunchOptions throws.  armed: the timers left armed
\* by the step that settled the promise.
ResumeResolved(i, value, throws, armed) ==
    LET merged == mergeLaunchOptions(value, getCurrentConfig.globalLaunchOptions)
        id == ParseInt(currentLaunchingAppId)
    IN  /\ setterLog' = Append(setterLog,
                               [appId |-> id, options |-> merged, by |-> "apply",
                                call |-> i, threw |-> throws])
        /\ steamOptions' = IF throws THEN steamOptions
                           ELSE StoreOptions(steamOptions, id, merged)
        /\ timers' = IF throws THEN armed
                     ELSE Append(armed, RestoreTimer(currentLaunchingAppId, value, merged, i))
        /\ currentLaunchingAppId' = NoApp
        /\ originalLaunchOptions' = NULL
        /\ calls' = [calls EXCEPT ![i] = CallOriginal(@)]

\* Mutant: the clean-up sits inside the try block, so a rejected fetch skips it.
ResumeRejected_keepsSlot(i, armed) ==
    /\ timers' = armed
    /\ calls' = [calls EXCEPT ![i] = CallOriginal(@)]
    /\ UNCHANGED <<setterLog, steamOptions, currentLaunchingAppId, originalLaunchOptions>>

\* The handler after the awaited promise rejected: catch, clean up, delegate.
ResumeRejected(i, armed) ==
    /\ timers' = armed
    /\ currentLaunchingAppId' = NoApp
    /\ originalLaunchOptions' = NULL
    /\ calls' = [calls EXCEPT ![i] = CallOriginal(@)]
    /\ UNCHANGED <<setterLog, steamOptions>>

\* Mutant: with no global options configured the clean-up is skipped.
ContinueGameAction_noCleanup(gameActionId, action, throws) ==
    /\ wrapDepth > 0
    /\ EventCount < MaxEvents
    /\ throws => counters.faults < MaxFaults
    /\ counters' = [counters EXCEPT !.continue = @ + 1, !.faults = @ + Fault(throws)]
    /\ LET i == Len(calls) + 1
           f == Len(fetches) + 1
           c == [gameActionId |-> gameActionId, action |-> action,
                 status |-> "suspended", fetch |-> 0, delegated |-> <<>>,
                 returned |-> <<>>, detectionsBefore |-> counters.detect,
                 setterCallsBefore |-> Len(setterLog),
                 found |-> currentLaunchingAppId]
       IN  IF action = "CreatingProcess" /\ currentLaunchingAppId # NoApp
           THEN IF getCurrentConfig.globalLaunchOptions # <<>>
                THEN IF throws
                     THEN /\ calls' = Append(calls, CallOriginal(c))
                          /\ currentLaunchingAppId' = NoApp
                          /\ originalLaunchOptions' = NULL
                          /\ UNCHANGED <<fetches, timers>>
                     ELSE /\ fetches' = Append(fetches,
                                 [appId |-> ParseInt(currentLaunchingAppId),
                                  registered |-> TRUE, state |-> "pending",
                                  unregisterCalls |-> 0, call |-> i])
                          /\ timers' = Append(timers, FetchTimer(f, i))
                          /\ calls' = Append(calls, [c EXCEPT !.fetch = f])
                          /\ UNCHANGED <<currentLaunchingAppId, originalLaunchOptions>>
                ELSE /\ ~throws
                     /\ calls' = Append(calls, CallOriginal(c))
                     /\ UNCHANGED <<currentLaunchingAppId, originalLaunchOptions,
                                    fetches, timers>>
           ELSE /\ ~throws
                /\ calls' = Append(calls, CallOriginal(c))
                /\ UNCHANGED <<currentLaunchingAppId, originalLaunchOptions, fetches, timers>>
    /\ UNCHANGED <<hooksInjected, pluginConfig, platformVars, initialOptions, setterLog,
                   detections, lastDetection, pureVars>>

\* An invocation of the wrapped ContinueGameAction, up to its first suspension.
\* throws: RegisterForAppDetails throws.
ContinueGameAction(gameActionId, action, throws) ==
    /\ wrapDepth > 0
    /\ EventCount < MaxEvents
    /\ throws => counters.faults < MaxFaults
    /\ counters' = [counters EXCEPT !.continue = @ + 1, !.faults = @ + Fault(throws)]
    /\ LET i == Len(calls) + 1
           f == Len(fetches) + 1
           c == [gameActionId |-> gameActionId, action |-> action,
                 status |-> "suspended", fetch |-> 0, delegated |-> <<>>,
                 returned |-> <<>>, detectionsBefore |-> counters.detect,
                 setterCallsBefore |-> Len(setterLog),
                 found |-> currentLaunchingAppId]
       IN  IF action = "CreatingProcess" /\ currentLaunchingAppId # NoApp
           THEN IF getCurrentConfig.globalLaunchOptions # <<>>
                THEN IF throws
                     THEN /\ calls' = Append(calls, CallOriginal(c))
                          /\ currentLaunchingAppId' = NoApp
                          /\ originalLaunchOptions' = NULL
                          /\ UNCHANGED <<fetches, timers>>
                     ELSE /\ fetches' = Append(fetches,
                                 [appId |-> ParseInt(currentLaunchingAppId),
                                  registered |-> TRUE, state |-> "pending",
                                  unregisterCalls |-> 0, call |-> i])
                          /\ timers' = Append(timers, FetchTimer(f, i))
                          /\ calls' = Append(calls, [c EXCEPT !.fetch = f])
                          /\ UNCHANGED <<currentLaunchingAppId, originalLaunchOptions>>
                ELSE /\ ~throws
                     /\ calls' = Append(calls, CallOriginal(c))
                     /\ currentLaunchingAppId' = NoApp
                     /\ originalLaunchOptions' = NULL
                     /\ UNCHANGED <<fetches, timers>>
           ELSE /\ ~throws
                /\ calls' = Append(calls, CallOriginal(c))
                /\ UNCHANGED <<currentLaunchingAppId, originalLaunchOptions, fetches, timers>>
    /\ UNCHANGED <<hooksInjected, pluginConfig, platformVars, initialOptions, setterLog,
                   detections, lastDetection, pureVars>>

\* Mutant: the success path resolves without unregistering the callback.
DeliverAppDetails_leak(f, bad, throws) ==
    /\ f \in 1..Len(fetches)
    /\ fetches[f].registered
    /\ fetches[f].state = "pending"
    /\ ~(bad /\ throws)
    /\ (bad \/ throws) => counters.faults < MaxFaults
    /\ counters' = [counters EXCEPT !.faults = @ + Fault(bad \/ throws)]
    /\ fetches' = [fetches EXCEPT ![f] =
                     [@ EXCEPT !.registered = ~bad,
                               !.unregisterCalls = IF bad THEN @ + 1 ELSE @,
                               !.state = IF bad THEN "rejected" ELSE "resolved"]]
    /\ IF bad
       THEN ResumeRejected(fetches[f].call, timers)
       ELSE ResumeResolved(fetches[f].call, steamOptions[fetches[f].appId],
                           throws, timers)
    /\ UNCHANGED <<hooksInjected, pluginConfig, steamApi, detectCallbacks, wrapDepth,
                   localStorage, initialOptions, detections, lastDetection, pureVars>>

\* The platform invokes the callback registered by fetch f.  bad: appDetails is
\* not an object, so reading strLaunchOptions throws.  throws: as in
\* ResumeResolved.
DeliverAppDetails(f, bad, throws) ==
    /\ f \in 1..Len(fetches)
    /\ fetches[f].registered
    /\ ~(bad /\ throws)
    /\ (bad \/ throws) => counters.faults < MaxFaults
    /\ counters' = [counters EXCEPT !.faults = @ + Fault(bad \/ throws)]
    /\ fetches' = [fetches EXCEPT ![f] =
                     [@ EXCEPT !.registered = FALSE,
                               !.unregisterCalls = @ + 1,
                               !.state = IF @ # "pending" THEN @
                                         ELSE IF bad THEN "rejected" ELSE "resolved"]]
    /\ IF fetches[f].state = "pending"
       THEN IF bad
            THEN ResumeRejected(fetches[f].call, timers)
            ELSE ResumeResolved(fetches[f].call, steamOptions[fetches[f].appId],
                                throws, timers)
       ELSE UNCHANGED <<timers, currentLaunchingAppId, originalLaunchOptions, calls,
                        setterLog, steamOptions>>
    /\ UNCHANGED <<hooksInjected, pluginConfig, steamApi, detectCallbacks, wrapDepth,
                   localStorage, initialOptions, detections, lastDetection, pureVars>>

\* Mutant: the timeout rejects without unregistering the callback.
FetchTimeout_noUnregister(i) ==
    /\ i \in 1..Len(timers)
    /\ timers[i].kind = "fetchTimeout"
    /\ CanFire(i)
    /\ LET t == timers[i]
           armed == RemoveAt(timers, i)
       IN  /\ fetches' = [fetches EXCEPT ![t.fetch] =
                            [@ EXCEPT !.state = IF @ = "pending" THEN "rejected" ELSE @]]
           /\ IF fetches[t.fetch].state = "pending"
              THEN ResumeRejected(t.call, armed)
              ELSE /\ timers' = armed
                   /\ UNCHANGED <<currentLaunchingAppId, originalLaunchOptions, calls,
                                  setterLog, steamOptions>>
    /\ UNCHANGED <<hooksInjected, pluginConfig, steamApi, detectCallbacks, wrapDepth,
                   localStorage, initialOptions, detections, lastDetection, counters,
                   pureVars>>

\* The 5000 ms timer of a fetch fires (it is never cleared).
FetchTimeout(i) ==
    /\ i \in 1..Len(timers)
    /\ timers[i].kind = "fetchTimeout"
    /\ CanFire(i)
    /\ LET t == timers[i]
           armed == RemoveAt(timers, i)
       IN  /\ fetches' = [fetches EXCEPT ![t.fetch] =
                            [@ EXCEPT !.registered = FALSE,
                                      !.unregisterCalls = @ + 1,
                                      !.state = IF @ = "pending" THEN "rejected" ELSE @]]
           /\ IF fetches[t.fetch].state = "pending"
              THEN ResumeRejected(t.call, armed)
              ELSE /\ timers' = armed
                   /\ UNCHANGED <<currentLaunchingAppId, originalLaunchOptions, calls,
                                  setterLog, steamOptions>>
    /\ UNCHANGED <<hooksInjected, pluginConfig, steamApi, detectCallbacks, wrapDepth,
                   localStorage, initialOptions, detections, lastDetection, counters,
                   pureVars>>

\* Mutant: the options are written although the setter threw.
RestoreOptions_writesAnyway(i, throws) ==
    /\ i \in 1..Len(timers)
    /\ timers[i].kind = "restore"
    /\ CanFire(i)
    /\ throws => counters.faults < MaxFaults
    /\ counters' = [counters EXCEPT !.faults = @ + Fault(throws)]
    /\ LET t == timers[i]
           id == ParseInt(t.appIdToRestore)
       IN  /\ setterLog' = Append(setterLog,
                                  [appId |-> id, options |-> t.optionsToRestore,
                                   by |-> "restore", call |-> t.call, threw |-> throws])
           /\ steamOptions' = StoreOptions(steamOptions, id, t.optionsToRestore)
           /\ timers' = RemoveAt(timers, i)
    /\ UNCHANGED <<hooksInjected, pluginConfig, currentLaunchingAppId,
                   originalLaunchOptions, calls, fetches, steamApi, detectCallbacks,
                   wrapDepth, localStorage, initialOptions, detections, lastDetection,
                   pureVars>>

\* The 20000 ms restoration timer fires.  throws: SetAppLaunchOptions throws.
RestoreOptions(i, throws) ==
    /\ i \in 1..Len(timers)
    /\ timers[i].kind = "restore"
    /\ CanFire(i)
    /\ throws => counters.faults < MaxFaults
    /\ counters' = [counters EXCEPT !.faults = @ + Fault(throws)]
    /\ LET t == timers[i]
           id == ParseInt(t.appIdToRestore)
       IN  /\ setterLog' = Append(setterLog,
                                  [appId |-> id, options |-> t.optionsToRestore,
                                   by |-> "restore", call |-> t.call, threw |-> throws])
           /\ steamOptions' = IF throws THEN steamOptions
                              ELSE StoreOptions(steamOptions, id, t.optionsToRestore)
           /\ timers' = RemoveAt(timers, i)
    /\ UNCHANGED <<hooksInjected, pluginConfig, currentLaunchingAppId,
                   originalLaunchOptions, calls, fetches, steamApi, detectCallbacks,
                   wrapDepth, localStorage, initialOptions, detections, lastDetection,
                   pureVars>>

\* Mutant: the edit is persisted but the in-memory configuration keeps the old
\* value.
ChangeSetting_persistOnly(name, value) ==
    /\ EventCount < MaxEvents
    /\ value # pluginConfig[name]
    /\ counters' = [counters EXCEPT !.settings = @ + 1]
    /\ localStorage' = [pluginConfig EXCEPT ![name] = value]
    /\ UNCHANGED <<hooksInjected, pluginConfig, currentLaunchingAppId,
                   originalLaunchOptions, calls,
                   fetches, timers, steamApi, detectCallbacks, wrapDepth, steamOptions,
                   initialOptions, setterLog, detections, lastDetection, pureVars>>

\* SingleSetting's onChange for the field `name` (the text was edited to value),
\* followed by saveConfig().
ChangeSetting(name, value) ==
    /\ EventCount < MaxEvents
    /\ value # pluginConfig[name]
    /\ counters' = [counters EXCEPT !.settings = @ + 1]
    /\ pluginConfig' = [pluginConfig EXCEPT ![name] = value]
    /\ localStorage' = pluginConfig'
    /\ UNCHANGED <<hooksInjected, currentLaunchingAppId, originalLaunchOptions, calls,
                   fetches, timers, steamApi, detectCallbacks, wrapDepth, steamOptions,
                   initialOptions, setterLog, detections, lastDetection, pureVars>>

FireTimer ==
    \/ \E i \in 1..Len(timers) : FetchTimeout(i)
    \/ \E i \in 1..Len(timers) : RestoreOptions(i, FALSE)

Next ==
    \/ injectLaunchHooks
    \/ \E appId \in AppIds, action \in LaunchActions : LaunchDetect(appId, action)
    \/ \E g \in GameActionIds, action \in ContinueActions, throws \in BOOLEAN :
          ContinueGameAction(g, action, throws)
    \/ \E f \in 1..Len(fetches), bad \in BOOLEAN, throws \in BOOLEAN :
          DeliverAppDetails(f, bad, throws)
    \/ \E i \in 1..Len(timers) : FetchTimeout(i)
    \/ \E i \in 1..Len(timers), throws \in BOOLEAN : RestoreOptions(i, throws)
    \/ \E value \in GlobalOptionChoices : ChangeSetting("globalLaunchOptions", value)
    \/ \E value \in ExcludedChoices : ChangeSetting("excludedGameIds", value)

Spec == Init /\ [][Next]_vars

\* The event loop runs every armed timer: a timer that is due fires.
FairSpec == Spec /\ WF_vars(FireTimer)

(***************************************************************************)
(* Parser/merger harness: the inputs are drawn in the initial state, one   *)
(* step applies parseLaunchOptions to the original string, the next        *)
(* applies mergeLaunchOptions to the pair.                                 *)
(***************************************************************************)

LaunchOff ==
    /\ hooksInjected = FALSE
    /\ localStorage = NoStoredConfig
    /\ pluginConfig = DefaultConfig
    /\ currentLaunchingAppId = NoApp
    /\ originalLaunchOptions = NULL
    /\ calls = <<>>
    /\ fetches = <<>>
    /\ timers = <<>>
    /\ steamApi = [register |-> FALSE, continue |-> FALSE]
    /\ detectCallbacks = 0
    /\ wrapDepth = 0
    /\ steamOptions = [a \in AppIds |-> EmptyString]
    /\ initialOptions = steamOptions
    /\ setterLog = <<>>
    /\ detections = {}
    /\ lastDetection = NoDetection
    /\ counters = [detect |-> 0, continue |-> 0, settings |-> 0, faults |-> 0, inject |-> 0]

InitPure ==
    /\ LaunchOff
    /\ CacheOff
    /\ argOriginal \in StringsUpTo(MaxPieces) \cup ExampleOriginals
    /\ argGlobal \in StringsUpTo(MaxGlobalPieces) \cup ExampleGlobals
    /\ retParsed = NULL
    /\ retMerged = NULL
    /\ purePc = "input"

ParseStep ==
    /\ purePc = "input"
    /\ retParsed' = parseLaunchOptions(argOriginal)
    /\ purePc' = "parsed"
    /\ UNCHANGED <<launchVars, cacheVars, argOriginal, argGlobal, retMerged>>

MergeStep ==
    /\ purePc = "parsed"
    /\ retMerged' = mergeLaunchOptions(argOriginal, argGlobal)
    /\ purePc' = "merged"
    /\ UNCHANGED <<launchVars, cacheVars, argOriginal, argGlobal, retParsed>>

NextPure == ParseStep \/ MergeStep

SpecPure == InitPure /\ [][NextPure]_vars

(***************************************************************************)
(* Remote-cached configuration: fetchCurrentConfig of the backend variant   *)
(* (src/unnamed/part_000), with the clock and the backend as environment.  *)
(***************************************************************************)

\* Cache timeout in milliseconds.
CONFIG_CACHE_TTL == 1000

MaxConfigCalls == 3
MaxClock == 2000

\* Time that passes between two events, in milliseconds.
Delays == {500, 1000}

\* What the backend may hold.
BackendConfigs == [globalLaunchOptions : {MangoHud}, excludedGameIds : ExcludedChoices]

InitConfig ==
    /\ LaunchOff
    /\ PureOff
    /\ configCache = NoCache
    /\ lastConfigFetch = 0
    /\ clock = 0
    /\ configCalls = <<>>
    /\ backend \in BackendConfigs

\* if (configCache && (now - lastConfigFetch) < CONFIG_CACHE_TTL)
CacheFresh(now) == configCache # NoCache /\ (now - lastConfigFetch) < CONFIG_CACHE_TTL

\* fetchCurrentConfig() up to its return or its suspension at
\* `await Millennium.callServerMethod(...)`.
fetchCurrentConfig ==
    /\ Len(configCalls) < MaxConfigCalls
    /\ LET now == clock
       IN  configCalls' = Append(configCalls,
               IF CacheFresh(now)
               THEN [now |-> now, state |-> "returned", backendCall |-> FALSE,
                     failed |-> FALSE, result |-> configCache]
               ELSE [now |-> now, state |-> "awaiting", backendCall |-> TRUE,
                     failed |-> FALSE, result |-> NoCache])
    /\ UNCHANGED <<launchVars, argOriginal, argGlobal, retParsed, retMerged, purePc,
                   configCache, lastConfigFetch, clock, backend>>

\* The backend call of invocation i settles and the invocation resumes: with
\* the parsed answer, or, if the call or JSON.parse failed, with the defaults.
\* Either is cached under the time read when the invocation started.
BackendReply(i, ok) ==
    /\ i \in 1..Len(configCalls)
    /\ configCalls[i].state = "awaiting"
    /\ LET config == IF ok THEN backend ELSE DefaultConfig
       IN  /\ configCache' = config
           /\ lastConfigFetch' = configCalls[i].now
           /\ configCalls' = [configCalls EXCEPT ![i] =
                                [@ EXCEPT !.state = "returned", !.failed = ~ok,
                                          !.result = config]]
    /\ UNCHANGED <<launchVars, argOriginal, argGlobal, retParsed, retMerged, purePc,
                   clock, backend>>

\* Time passes.
Tick(d) ==
    /\ clock + d <= MaxClock
    /\ clock' = clock + d
    /\ UNCHANGED <<launchVars, argOriginal, argGlobal, retParsed, retMerged, purePc,
                   configCache, lastConfigFetch, configCalls, backend>>

\* The configuration held by the backend is edited.
BackendChange(c) ==
    /\ c # backend
    /\ backend' = c
    /\ UNCHANGED <<launchVars, argOriginal, argGlobal, retParsed, retMerged, purePc,
                   configCache, lastConfigFetch, clock, configCalls>>

NextConfig ==
    \/ fetchCurrentConfig
    \/ \E i \in 1..Len(configCalls), ok \in BOOLEAN : BackendReply(i, ok)
    \/ \E d \in Delays : Tick(d)
    \/ \E c \in BackendConfigs : BackendChange(c)

SpecConfig == InitConfig /\ [][NextConfig]_vars

(***************************************************************************)
(* Properties of the parser and the merger (checked under SpecPure).       *)
(*                                                                         *)
(* The reference readings below scan a string once, left to right, and     *)
(* share nothing with split/trim/filter/join.                              *)
(***************************************************************************)

\* The whitespace-delimited non-empty tokens of s, left to right.
RECURSIVE WsScan(_, _)
WsScan(s, cur) ==
    IF s = <<>> THEN (IF cur = <<>> THEN <<>> ELSE <<cur>>)
    ELSE IF IsSpace(Head(s))
         THEN (IF cur = <<>> THEN <<>> ELSE <<cur>>) \o WsScan(Tail(s), <<>>)
         ELSE WsScan(Tail(s), Append(cur, Head(s)))

WsTokens(s) == WsScan(s, <<>>)

\* s contains the placeholder literal.
PlaceholderAt(s, i) ==
    /\ i + Len(PLACEHOLDER) - 1 <= Len(s)
    /\ SubSeq(s, i, i + Len(PLACEHOLDER) - 1) = PLACEHOLDER

ContainsPlaceholder(s) == \E i \in 1..Len(s) : PlaceholderAt(s, i)

\* The lexemes of s, left to right: an occurrence of the placeholder is a lexeme
\* of its own (ph = TRUE) and ends the token before it, as whitespace does.
RECURSIVE LexScan(_, _, _)
LexScan(s, i, cur) ==
    LET flush == IF cur = <<>> THEN <<>> ELSE <<[ph |-> FALSE, text |-> cur]>>
    IN  IF i > Len(s) THEN flush
        ELSE IF PlaceholderAt(s, i)
             THEN flush \o <<[ph |-> TRUE, text |-> PLACEHOLDER]>>
                        \o LexScan(s, i + Len(PLACEHOLDER), <<>>)
        ELSE IF IsSpace(s[i]) THEN flush \o LexScan(s, i + 1, <<>>)
        ELSE LexScan(s, i + 1, Append(cur, s[i]))

Lexemes(s) == LexScan(s, 1, <<>>)

\* Index of the first placeholder lexeme, 0 if none.
FirstPlaceholder(lx) ==
    LET hits == {k \in 1..Len(lx) : lx[k].ph}
    IN  IF hits = {} THEN 0 ELSE CHOOSE k \in hits : \A j \in hits : k <= j

\* The texts of the non-placeholder lexemes of lx, in order.
RECURSIVE PlainTexts(_)
PlainTexts(lx) ==
    IF lx = <<>> THEN <<>>
    ELSE (IF Head(lx).ph THEN <<>> ELSE <<Head(lx).text>>) \o PlainTexts(Tail(lx))

RECURSIVE Texts(_)
Texts(lx) == IF lx = <<>> THEN <<>> ELSE <<Head(lx).text>> \o Texts(Tail(lx))

\* How many tokens of toks are the placeholder.
PlaceholderCount(toks) == Cardinality({k \in 1..Len(toks) : toks[k] = PLACEHOLDER})

\* Index of the first placeholder token, 0 if none.
PlaceholderIndex(toks) ==
    LET hits == {k \in 1..Len(toks) : toks[k] = PLACEHOLDER}
    IN  IF hits = {} THEN 0 ELSE CHOOSE k \in hits : \A j \in hits : k <= j

\* Tokens separated by exactly one space, no leading or trailing whitespace.
SingleSpaced(s) ==
    /\ s # <<>> => (~IsSpace(s[1]) /\ ~IsSpace(s[Len(s)]))
    /\ \A i \in 1..Len(s) :
           IsSpace(s[i]) => (s[i] = " " /\ (i < Len(s) => ~IsSpace(s[i + 1])))

Merged == purePc = "merged"
Parsed == purePc \in {"parsed", "merged"}
ParsedOriginal == parseLaunchOptions(argOriginal)
ParsedGlobal == parseLaunchOptions(argGlobal)

\* C6: the merged string holds the placeholder token exactly once when either
\* input has a placeholder or the combined pre-command list is non-empty, and
\* not at all otherwise; never more than once (as a token or as a substring);
\* merging two empty strings gives the empty string.
C6_PlaceholderRule ==
    Merged =>
        LET needed == \/ ParsedOriginal.hasCommand
                      \/ ParsedGlobal.hasCommand
                      \/ ParsedOriginal.preCommand \o ParsedGlobal.preCommand # <<>>
        IN  /\ PlaceholderCount(WsTokens(retMerged)) = (IF needed THEN 1 ELSE 0)
            /\ Len(Lexemes(retMerged)) = Len(WsTokens(retMerged))
            /\ (argOriginal = <<>> /\ argGlobal = <<>>) => retMerged = <<>>

\* C6 witness: both inputs carry a placeholder and tokens of their own, and the
\* merged string has been computed.
C6_Witness ==
    /\ Merged
    /\ ParsedOriginal.hasCommand /\ ParsedGlobal.hasCommand
    /\ ParsedOriginal.postCommand # <<>> /\ ParsedGlobal.preCommand # <<>>
    /\ PlaceholderCount(WsTokens(retMerged)) = 1

\* C7: before the placeholder come the original's pre-command tokens, then the
\* global's; after it (or in the whole result when there is none) the original's
\* post-command tokens, then the global's; single spaces, none leading or
\* trailing; the two documented examples.
C7_CompositionOrder ==
    Merged =>
        LET toks == WsTokens(retMerged)
            k == PlaceholderIndex(toks)
            pre == ParsedOriginal.preCommand \o ParsedGlobal.preCommand
            post == ParsedOriginal.postCommand \o ParsedGlobal.postCommand
        IN  /\ IF k = 0
               THEN pre = <<>> /\ toks = post
               ELSE SubSeq(toks, 1, k - 1) = pre /\ SubSeq(toks, k + 1, Len(toks)) = post
            /\ SingleSpaced(retMerged)
            /\ (argOriginal = ExGamemode /\ argGlobal = ExMangoHud)
                   => retMerged = ExMergedGamemode
            /\ (argOriginal = ExNovid /\ argGlobal = ExMangoHud)
                   => retMerged = ExMergedNovid

\* C7 witness: the documented example with tokens on both sides of both
\* placeholders has been merged.
C7_Witness ==
    /\ Merged
    /\ argOriginal = ExGamemode /\ argGlobal = ExMangoHud
    /\ retMerged = ExMergedGamemode

\* C8: with an empty global string, an original holding a single placeholder
\* keeps its lexemes (same tokens, same order, placeholder in the same
\* position); an original without placeholder keeps exactly its tokens and gets
\* no placeholder; merge("-novid", "") = "-novid".
C8_EmptyGlobalIdentity ==
    (Merged /\ argGlobal = <<>>) =>
        LET lx == Lexemes(argOriginal)
            phs == Cardinality({k \in 1..Len(lx) : lx[k].ph})
        IN  /\ phs = 1 => WsTokens(retMerged) = Texts(lx)
            /\ phs = 0 => WsTokens(retMerged) = WsTokens(argOriginal)
            /\ phs = 0 => PlaceholderCount(WsTokens(retMerged)) = 0
            /\ argOriginal = ExNovid => retMerged = ExNovid

\* C8 witness: an original with tokens around a single placeholder has been
\* merged with the empty global string.
C8_Witness ==
    /\ Merged /\ argGlobal = <<>>
    /\ argOriginal = ExGamemode
    /\ retMerged = ExGamemode

\* C9: a string without the placeholder parses to hasCommand = FALSE, no
\* pre-command tokens, and its whitespace-delimited tokens in order as
\* post-command tokens; the empty and the whitespace-only string give
\* {[], [], false}.
C9_ParseWithoutPlaceholder ==
    (Parsed /\ ~ContainsPlaceholder(argOriginal)) =>
        /\ retParsed = [preCommand |-> <<>>, postCommand |-> WsTokens(argOriginal),
                        hasCommand |-> FALSE]
        /\ argOriginal \in {<<>>, ExWhitespace}
               => retParsed = [preCommand |-> <<>>, postCommand |-> <<>>,
                               hasCommand |-> FALSE]

\* C9 witness: a placeholder-free string of two tokens separated by whitespace
\* has been parsed.
C9_Witness ==
    /\ Parsed
    /\ ~ContainsPlaceholder(argOriginal)
    /\ Len(WsTokens(argOriginal)) = 2
    /\ Len(retParsed.postCommand) = 2

\* C10: a string containing the placeholder parses to hasCommand = TRUE, the
\* tokens before the first placeholder as pre-command, and the tokens after it,
\* further placeholders left out, as post-command; hasCommand is TRUE exactly
\* when the string contains the placeholder; no parsed token is the
\* placeholder; the two documented examples.
C10_ParseWithPlaceholder ==
    Parsed =>
        LET lx == Lexemes(argOriginal)
            k == FirstPlaceholder(lx)
        IN  /\ retParsed.hasCommand = ContainsPlaceholder(argOriginal)
            /\ ContainsPlaceholder(argOriginal) =>
                   /\ k > 0
                   /\ retParsed.preCommand = PlainTexts(SubSeq(lx, 1, k - 1))
                   /\ retParsed.postCommand = PlainTexts(SubSeq(lx, k + 1, Len(lx)))
            /\ \A t \in 1..Len(retParsed.preCommand) :
                   retParsed.preCommand[t] # PLACEHOLDER
            /\ \A t \in 1..Len(retParsed.postCommand) :
                   retParsed.postCommand[t] # PLACEHOLDER
            /\ argOriginal = ExDouble
                   => retParsed = [preCommand |-> <<>>, postCommand |-> <<<<"X">>>>,
                                   hasCommand |-> TRUE]
            /\ argOriginal = ExABC
                   => retParsed = [preCommand |-> << <<"A">>, <<"B">> >>,
                                   postCommand |-> << <<"C">> >>, hasCommand |-> TRUE]

\* C10 witness: a string with two placeholders and a token after the second has
\* been parsed.
C10_Witness ==
    /\ Parsed
    /\ argOriginal = ExDouble
    /\ retParsed.hasCommand
    /\ retParsed.postCommand = << <<"X">> >>

(***************************************************************************)
(* Properties of the launch model (checked under Spec, the temporal ones   *)
(* under FairSpec).                                                        *)
(***************************************************************************)

\* The decimal text of the app ids of the model.
AppIdText(appId) == IF appId = 440 THEN <<"4", "4", "0">> ELSE <<"7", "3", "0">>

\* appId appears, whitespace around it ignored, as one of the comma-separated
\* entries of ids: some stretch a..b of ids bounded by commas (or the ends) and
\* free of commas holds the id's text at i..j and only whitespace around it.
ListsApp(ids, appId) ==
    LET text == AppIdText(appId)
        n == Len(ids)
    IN  \E a \in 1..n, b \in 1..n :
          /\ a <= b
          /\ a = 1 \/ ids[a - 1] = ","
          /\ b = n \/ ids[b + 1] = ","
          /\ \A k \in a..b : ids[k] # ","
          /\ \E i \in a..b :
               LET j == i + Len(text) - 1
               IN  /\ j <= b
                   /\ SubSeq(ids, i, j) = text
                   /\ \A k \in a..(i - 1) : IsSpace(ids[k])
                   /\ \A k \in (j + 1)..b : IsSpace(ids[k])

\* The entries of the setter log written by restoration timers / by the apply step.
Restores == {k \in 1..Len(setterLog) : setterLog[k].by = "restore"}
Applies == {k \in 1..Len(setterLog) : setterLog[k].by = "apply"}
ArmedRestores == {k \in 1..Len(timers) : timers[k].kind = "restore"}

\* A step in which the wrapped ContinueGameAction is invoked / the
\* launch-detection callback runs.
ContinueEvent == counters'.continue = counters.continue + 1
DetectEvent == counters'.detect = counters.detect + 1
NewCall == calls'[Len(calls')]

\* One launch of the non-excluded app X and nothing else: one detection
\* (LaunchApp, X), then one ContinueGameAction("CreatingProcess"); global options
\* configured and never edited; no platform call has failed.
SingleCycle(X) ==
    /\ counters.detect = 1
    /\ lastDetection.appId = X /\ lastDetection.action = "LaunchApp"
    /\ ~ListsApp(pluginConfig.excludedGameIds, X)
    /\ pluginConfig.globalLaunchOptions # <<>>
    /\ counters.settings = 0 /\ counters.faults = 0
    /\ Len(calls) = 1
    /\ calls[1].action = "CreatingProcess" /\ calls[1].detectionsBefore = 1
    /\ \A f \in 1..Len(fetches) : fetches[f].state # "rejected"

C1_Cycle(X) ==
    LET o == initialOptions[X]
        merged == mergeLaunchOptions(o, pluginConfig.globalLaunchOptions)
        applied == [appId |-> X, options |-> merged, by |-> "apply", call |-> 1,
                    threw |-> FALSE]
        restored == [appId |-> X, options |-> o, by |-> "restore", call |-> 1,
                     threw |-> FALSE]
    IN  SingleCycle(X) =>
          /\ Len(fetches) = 1 /\ fetches[1].appId = X
          /\ calls[1].status = "suspended" =>
                 (setterLog = <<>> /\ ArmedRestores = {} /\ steamOptions = initialOptions)
          /\ calls[1].status = "returned" =>
                 /\ Cardinality(ArmedRestores) + Cardinality(Restores) = 1
                 /\ \A k \in ArmedRestores :
                        /\ timers[k].appIdToRestore = X
                        /\ timers[k].optionsToRestore = o
                 /\ ArmedRestores # {} =>
                        (setterLog = <<applied>> /\ steamOptions[X] = merged)
                 /\ ArmedRestores = {} =>
                        (setterLog = <<applied, restored>> /\ steamOptions[X] = o)
          /\ \A Y \in AppIds \ {X} : steamOptions[Y] = initialOptions[Y]

\* No cancellation: a restoration timer leaves the armed timers only by firing,
\* which calls the setter with what the timer holds.
C1_NoCancel ==
    \A k \in 1..Len(timers) :
        (timers[k].kind = "restore"
         /\ Cardinality({j \in 1..Len(timers') : timers'[j] = timers[k]})
                < Cardinality({j \in 1..Len(timers) : timers[j] = timers[k]}))
        => /\ Len(setterLog') = Len(setterLog) + 1
           /\ setterLog'[Len(setterLog')].by = "restore"
           /\ setterLog'[Len(setterLog')].call = timers[k].call
           /\ setterLog'[Len(setterLog')].options = timers[k].optionsToRestore

\* C1: in a single launch cycle of a non-excluded app X with original options o
\* and non-empty global options, all platform calls succeeding: the setter is
\* called with (X, merge(o, global)), exactly one restoration timer is armed,
\* its firing calls the setter exactly once with (X, o) and leaves X's stored
\* options equal to o; a restoration timer is never cancelled and, the event
\* loop running, always fires.
C1_SingleLaunchCycle ==
    /\ [](\A X \in AppIds : C1_Cycle(X))
    /\ [][C1_NoCancel]_vars
    /\ \A i \in 1..MaxEvents :
          (\E k \in ArmedRestores : timers[k].call = i)
              ~> (\E k \in Restores : setterLog[k].call = i)

\* C1 witness: the cycle of app 440 is over: merged options were applied, the
\* timer has fired and the stored options are the original ones again.
C1_Witness ==
    /\ SingleCycle(440)
    /\ Len(setterLog) = 2
    /\ setterLog[1].by = "apply" /\ setterLog[1].options # initialOptions[440]
    /\ setterLog[2].by = "restore" /\ setterLog[2].options = initialOptions[440]
    /\ timers = <<>>
    /\ steamOptions[440] = initialOptions[440]

\* Two launches of the non-excluded app X, the second one (detection and
\* ContinueGameAction("CreatingProcess")) made after the first launch's merged
\* options were applied and before its restoration timer fired; nothing else
\* happened and no platform call failed.
Relaunch(X) ==
    /\ counters.detect = 2
    /\ \A d \in detections : d.appId = X /\ d.action = "LaunchApp"
    /\ ~ListsApp(pluginConfig.excludedGameIds, X)
    /\ pluginConfig.globalLaunchOptions # <<>>
    /\ counters.settings = 0 /\ counters.faults = 0
    /\ Len(calls) = 2
    /\ \A i \in 1..2 : calls[i].action = "CreatingProcess" /\ calls[i].detectionsBefore = i
    /\ calls[2].setterCallsBefore = 1
    /\ \A f \in 1..Len(fetches) : fetches[f].state # "rejected"

\* C2: when app X is launched again before the restoration timer of its first
\* launch has fired, both restoration timers write the options X had before the
\* first launch, and once both have fired X's stored options are those.
C2_RelaunchRestoresOriginal ==
    \A X \in AppIds :
        Relaunch(X) =>
            /\ \A k \in Restores : setterLog[k].options = initialOptions[X]
            /\ \A k \in ArmedRestores : timers[k].optionsToRestore = initialOptions[X]
            /\ (Cardinality(Restores) = 2 /\ timers = <<>>)
                   => steamOptions[X] = initialOptions[X]

\* The latest launch-detection event was a LaunchApp of an app listed in
\* excludedGameIds at that moment.
LastLaunchExcluded ==
    /\ lastDetection # NoDetection
    /\ lastDetection.action = "LaunchApp"
    /\ ListsApp(lastDetection.excludedGameIds, lastDetection.appId)

C3_DetectionStep ==
    (/\ DetectEvent
     /\ lastDetection'.action = "LaunchApp"
     /\ ListsApp(pluginConfig.excludedGameIds, lastDetection'.appId))
    => /\ currentLaunchingAppId' # lastDetection'.appId
       /\ currentLaunchingAppId' = NoApp

C3_ContinueStep ==
    (ContinueEvent /\ NewCall.action = "CreatingProcess" /\ LastLaunchExcluded)
    => /\ fetches' = fetches
       /\ setterLog' = setterLog
       /\ timers' = timers
       /\ steamOptions' = steamOptions
       /\ NewCall.found = NoApp

\* Every launch of X so far was a launch of an excluded app.
OnlyExcludedLaunches(X) ==
    \A d \in detections :
        (d.appId = X /\ d.action = "LaunchApp") => ListsApp(d.excludedGameIds, X)

C3_NeverWritten ==
    \A X \in AppIds :
        OnlyExcludedLaunches(X) =>
            /\ steamOptions[X] = initialOptions[X]
            /\ \A k \in 1..Len(setterLog) : setterLog[k].appId # X
            /\ \A f \in 1..Len(fetches) : fetches[f].appId # X
            /\ \A k \in 1..Len(timers) : timers[k].appIdToRestore # X
            /\ currentLaunchingAppId # X

\* C3: a launch-detection event for an app listed (entries trimmed) in
\* excludedGameIds never puts that id in the pending slot, whatever the slot
\* held; the ContinueGameAction("CreatingProcess") that follows it fetches
\* nothing, calls no setter and arms no timer; an app whose launches were all
\* excluded is never fetched or written.
C3_Exclusion ==
    /\ [][C3_DetectionStep]_vars
    /\ [][C3_ContinueStep]_vars
    /\ []C3_NeverWritten

\* C3 witness: app 440 was pending when the excluded app 730 was detected, and
\* the ContinueGameAction("CreatingProcess") that followed has returned with
\* nothing fetched or written.
C3_Witness ==
    /\ counters.detect = 2
    /\ \E d \in detections :
          d.appId = 440 /\ d.action = "LaunchApp" /\ ~ListsApp(d.excludedGameIds, 440)
    /\ LastLaunchExcluded /\ lastDetection.appId = 730
    /\ pluginConfig.globalLaunchOptions # <<>>
    /\ Len(calls) = 1
    /\ calls[1].action = "CreatingProcess" /\ calls[1].detectionsBefore = 2
    /\ calls[1].status = "returned"
    /\ fetches = <<>> /\ setterLog = <<>> /\ timers = <<>>

C4_Step ==
    (ContinueEvent /\ (NewCall.action # "CreatingProcess" \/ currentLaunchingAppId = NoApp))
    => /\ fetches' = fetches
       /\ setterLog' = setterLog
       /\ timers' = timers
       /\ steamOptions' = steamOptions
       /\ currentLaunchingAppId' = currentLaunchingAppId
       /\ originalLaunchOptions' = originalLaunchOptions
       /\ pluginConfig' = pluginConfig
       /\ SubSeq(calls', 1, Len(calls)) = calls
       /\ NewCall.status = "returned"
       /\ NewCall.delegated = << <<NewCall.gameActionId, NewCall.action>> >>
       /\ NewCall.returned = OriginalResult(NewCall.gameActionId, NewCall.action)

\* C4: a ContinueGameAction whose tag is not "CreatingProcess", or one that finds
\* the pending slot empty, fetches nothing, calls no setter, arms no timer,
\* leaves the pending slot as it was and is passed to the original handler with
\* the same (gameActionId, action).
C4_PassThrough == [][C4_Step]_vars

\* C4 witness: app 440 is still pending after a ContinueGameAction with the tag
\* "LaunchingProcess" went through to the original handler.
C4_Witness ==
    /\ currentLaunchingAppId = 440
    /\ Len(calls) = 1
    /\ calls[1].action = "LaunchingProcess"
    /\ calls[1].found = 440
    /\ calls[1].status = "returned"
    /\ Len(calls[1].delegated) = 1

C5_Delegation ==
    \A i \in 1..Len(calls) :
        LET c == calls[i]
        IN  /\ c.status = "returned" =>
                /\ c.delegated = << <<c.gameActionId, c.action>> >>
                /\ c.returned = OriginalResult(c.gameActionId, c.action)
            /\ c.status = "suspended" =>
                /\ c.delegated = <<>>
                /\ fetches[c.fetch].state = "pending"
                /\ \E k \in 1..Len(timers) :
                       timers[k].kind = "fetchTimeout" /\ timers[k].fetch = c.fetch

\* C5: every invocation of the wrapped ContinueGameAction delegates exactly once
\* to the original handler, with the arguments it was given, and returns its
\* result, whether the fetch succeeded, timed out or threw and whether the
\* apply setter threw; a suspended invocation is resumed by the fetch's delivery
\* or, at the latest, by its timeout.
C5_AlwaysDelegates ==
    /\ []C5_Delegation
    /\ \A i \in 1..MaxEvents :
          (Len(calls) >= i) ~> (Len(calls) >= i /\ calls[i].status = "returned")

\* C5 witness: one invocation has returned after its fetch timed out, another
\* after the apply setter threw; each delegated once.
C5_Witness ==
    /\ Len(calls) = 2
    /\ \A i \in 1..2 : calls[i].status = "returned" /\ Len(calls[i].delegated) = 1
    /\ \E f \in 1..Len(fetches) : fetches[f].state = "rejected"
    /\ \E k \in Applies : setterLog[k].threw

\* A step in which injectLaunchHooks is invoked while the flag is set.
ReinjectEvent == counters'.inject = counters.inject + 1

\* Each entry point is hooked at most once, and exactly when the installer has
\* run and the entry point exists.
C11_AtMostOnce ==
    /\ wrapDepth <= 1 /\ detectCallbacks <= 1
    /\ ~hooksInjected => (wrapDepth = 0 /\ detectCallbacks = 0)
    /\ hooksInjected =>
          /\ wrapDepth = (IF steamApi.continue THEN 1 ELSE 0)
          /\ detectCallbacks = (IF steamApi.register THEN 1 ELSE 0)

C11_Step ==
    /\ hooksInjected => hooksInjected'
    /\ (~hooksInjected /\ (wrapDepth' # wrapDepth \/ detectCallbacks' # detectCallbacks))
          => hooksInjected'
    /\ ReinjectEvent =>
          /\ hooksInjected /\ hooksInjected'
          /\ wrapDepth' = wrapDepth /\ detectCallbacks' = detectCallbacks
          /\ pluginConfig' = pluginConfig /\ localStorage' = localStorage
          /\ currentLaunchingAppId' = currentLaunchingAppId
          /\ originalLaunchOptions' = originalLaunchOptions
          /\ calls' = calls /\ fetches' = fetches /\ timers' = timers
          /\ steamOptions' = steamOptions /\ setterLog' = setterLog

\* C11: however often injectLaunchHooks is invoked, ContinueGameAction is
\* wrapped at most once and the launch-detection callback registered at most
\* once; the flag is set by the first invocation, never reset, and an
\* invocation made while it is set changes nothing.
C11_InstallOnce == []C11_AtMostOnce /\ [][C11_Step]_vars

\* C11 witness: the installer was invoked twice more after it had installed
\* both hooks, and each is still installed once.
C11_Witness ==
    /\ counters.inject = 2
    /\ hooksInjected
    /\ wrapDepth = 1 /\ detectCallbacks = 1

\* The first invocation of the installer: it hooks each entry point that
\* exists, whether or not the other one does.
C12_InstallStep ==
    (~hooksInjected /\ hooksInjected') =>
        /\ wrapDepth' = (IF steamApi.continue THEN 1 ELSE 0)
        /\ detectCallbacks' = (IF steamApi.register THEN 1 ELSE 0)

\* Whatever entry points exist, the first invocation runs to its end (where the
\* flag is set) instead of raising.
C12_Completes == ~hooksInjected => ENABLED (injectLaunchHooks /\ hooksInjected')

\* C12: the first invocation of injectLaunchHooks handles the two entry points
\* independently: ContinueGameAction is wrapped when
\* RegisterForGameActionUserRequest is missing, the launch-detection callback is
\* registered when ContinueGameAction is missing, and a missing entry point
\* raises no error out of the installer.
C12_PartialInstall == [][C12_InstallStep]_vars /\ []C12_Completes

\* C12 witness: the launch-detection entry point is missing, ContinueGameAction
\* was wrapped all the same and the wrapper has handled a call.
C12_Witness ==
    /\ hooksInjected
    /\ ~steamApi.register /\ steamApi.continue
    /\ detectCallbacks = 0 /\ wrapDepth = 1
    /\ Len(calls) = 1 /\ calls[1].status = "returned"

\* Invocation i of the wrapper completes in this step.
Completes(i) ==
    /\ i \in 1..Len(calls')
    /\ calls'[i].status = "returned"
    /\ i > Len(calls) \/ calls[i].status = "suspended"

\* Invocation i had the tag "CreatingProcess" and found a pending id.
Handled(c) == c.action = "CreatingProcess" /\ c.found # NoApp

C13_Step ==
    /\ \A i \in 1..Len(calls') :
          (Completes(i) /\ Handled(calls'[i])) =>
              (currentLaunchingAppId' = NoApp /\ originalLaunchOptions' = NULL)
    /\ (currentLaunchingAppId' # NoApp /\ currentLaunchingAppId' # currentLaunchingAppId)
          => (DetectEvent /\ lastDetection'.appId = currentLaunchingAppId')

\* C13: when the handling of a ContinueGameAction("CreatingProcess") that found a
\* pending id completes, the pending slot is empty, whether the fetch
\* succeeded, timed out or threw, whether the apply setter threw and whether the
\* global options were empty; only a later launch detection fills it again.
C13_UnconditionalClearing == [][C13_Step]_vars

\* C13 witness: an invocation that found app 440 pending has completed after
\* its fetch failed, and the slot is empty.
C13_Witness ==
    /\ Len(calls) = 1
    /\ Handled(calls[1]) /\ calls[1].found = 440
    /\ calls[1].status = "returned"
    /\ Len(fetches) = 1 /\ fetches[1].state = "rejected"
    /\ currentLaunchingAppId = NoApp

\* C14: for every ContinueGameAction("CreatingProcess") that found app X pending,
\* the app id of its fetch, the app id passed to the setter when the merged
\* options are applied and the app id its restoration timer holds and passes to
\* the setter are all X, under every interleaving.
C14_OneAppIdPerLaunch ==
    /\ \A f \in 1..Len(fetches) : fetches[f].appId = calls[fetches[f].call].found
    /\ \A k \in 1..Len(setterLog) : setterLog[k].appId = calls[setterLog[k].call].found
    /\ \A k \in ArmedRestores : timers[k].appIdToRestore = calls[timers[k].call].found

\* Invocation i's fetch resolved.
FetchResolved(i) == calls[i].fetch # 0 /\ fetches[calls[i].fetch].state = "resolved"

\* The apply call of invocation i that returned, made before position n of the
\* setter log, with the merged form of the string `original`.
AppliedBefore(i, n, original) ==
    \E k \in Applies :
        /\ k < n
        /\ setterLog[k].call = i
        /\ ~setterLog[k].threw
        /\ \E g \in GlobalOptionChoices :
               setterLog[k].options = mergeLaunchOptions(original, g)

\* C15: within one handled launch the setter is called with the merged options
\* only after the fetch resolved, and a restoration timer is armed only after
\* that setter call returned without throwing: every restoration, armed or
\* fired, belongs to an invocation whose fetch resolved and whose merged options
\* were applied.
C15_StepOrdering ==
    /\ \A k \in Applies : FetchResolved(setterLog[k].call)
    /\ \A k \in ArmedRestores :
          /\ FetchResolved(timers[k].call)
          /\ AppliedBefore(timers[k].call, Len(setterLog) + 1, timers[k].optionsToRestore)
    /\ \A k \in Restores :
          /\ FetchResolved(setterLog[k].call)
          /\ AppliedBefore(setterLog[k].call, k, setterLog[k].options)
    /\ \A i \in 1..Len(calls) :
          Cardinality({k \in ArmedRestores : timers[k].call = i})
            + Cardinality({k \in Restores : setterLog[k].call = i}) <= 1

\* C15 witness: one invocation's apply call threw and nothing was scheduled for
\* it; another's returned and its restoration timer is armed.
C15_Witness ==
    /\ \E k \in Applies :
          /\ setterLog[k].threw
          /\ \A t \in ArmedRestores : timers[t].call # setterLog[k].call
          /\ \A r \in Restores : setterLog[r].call # setterLog[k].call
    /\ \E k \in Applies, t \in ArmedRestores :
          ~setterLog[k].threw /\ timers[t].call = setterLog[k].call

\* The 5000 ms timer of fetch f is armed.
TimeoutArmed(f) ==
    \E k \in 1..Len(timers) : timers[k].kind = "fetchTimeout" /\ timers[k].fetch = f

\* Fetch f times out in this step: it was pending and its timer fires.
TimesOut(f) ==
    /\ fetches[f].state = "pending"
    /\ TimeoutArmed(f)
    /\ ~(\E k \in 1..Len(timers') :
            timers'[k].kind = "fetchTimeout" /\ timers'[k].fetch = f)

C16_Step ==
    \A f \in 1..Len(fetches) :
        TimesOut(f) =>
            /\ fetches'[f].state = "rejected"
            /\ ~fetches'[f].registered
            /\ fetches'[f].unregisterCalls = fetches[f].unregisterCalls + 1
            /\ setterLog' = setterLog
            /\ steamOptions' = steamOptions
            /\ \A k \in 1..Len(timers') : timers'[k].call # fetches[f].call
            /\ Completes(fetches[f].call)
            /\ calls'[fetches[f].call].delegated =
                   << <<calls[fetches[f].call].gameActionId, calls[fetches[f].call].action>> >>

\* A pending fetch has its timer armed; the invocation of a rejected fetch has
\* made no setter call and has no restoration timer, then or later.
C16_State ==
    \A f \in 1..Len(fetches) :
        /\ fetches[f].state = "pending" => (TimeoutArmed(f) /\ fetches[f].registered)
        /\ fetches[f].state = "rejected" =>
              /\ ~fetches[f].registered
              /\ calls[fetches[f].call].status = "returned"
              /\ \A k \in 1..Len(setterLog) : setterLog[k].call # fetches[f].call
              /\ \A k \in ArmedRestores : timers[k].call # fetches[f].call

\* C16: when the app-details callback is not delivered before the 5000 ms timer
\* fires, the fetch is rejected and its callback unregistered; the invocation
\* calls the setter zero times, arms no restoration timer and delegates to the
\* original handler.
C16_FetchTimeout == [][C16_Step]_vars /\ []C16_State

\* C16 witness: the only fetch timed out; the invocation returned through the
\* original handler with no setter call and no timer left.
C16_Witness ==
    /\ Len(fetches) = 1
    /\ fetches[1].state = "rejected" /\ fetches[1].unregisterCalls = 1
    /\ ~fetches[1].registered
    /\ counters.faults = 0
    /\ timers = <<>> /\ setterLog = <<>>
    /\ calls[fetches[1].call].status = "returned"
    /\ Len(calls[fetches[1].call].delegated) = 1

Settled(f) == fetches[f].state # "pending"

\* A settled fetch has no callback registration left.
C17_TornDown == \A f \in 1..Len(fetches) : Settled(f) => ~fetches[f].registered

\* A settled fetch keeps its outcome, and a completion that comes second (the
\* timer firing after the delivery) resumes nothing: no invocation completes and
\* no setter call is made in that step.
C17_Step ==
    \A f \in 1..Len(fetches) :
        /\ Settled(f) => fetches'[f].state = fetches[f].state
        /\ (Settled(f) /\ fetches'[f] # fetches[f]) =>
              /\ calls' = calls
              /\ setterLog' = setterLog
              /\ steamOptions' = steamOptions
              /\ currentLaunchingAppId' = currentLaunchingAppId
        /\ (~Settled(f) /\ fetches'[f].state # "pending") => Completes(fetches[f].call)

\* C17: a fetch settles exactly once, by delivery or by timeout; the completion
\* that comes second does not change the outcome; in every state in which the
\* fetch has settled its callback registration has been torn down.
C17_FetchSettlement == []C17_TornDown /\ [][C17_Step]_vars

\* C17 witness: the fetch resolved by delivery, its timer fired afterwards, and
\* the outcome is still "resolved" with the registration torn down.
C17_Witness ==
    /\ Len(fetches) = 1
    /\ fetches[1].state = "resolved"
    /\ ~TimeoutArmed(1)
    /\ ~fetches[1].registered
    /\ Cardinality({k \in Applies : setterLog[k].call = fetches[1].call}) = 1

\* LaunchApp detections of the non-excluded apps X and then Y, and nothing else
\* before them; global options configured and never edited.
TwoDetections(X, Y) ==
    /\ X # Y
    /\ counters.detect = 2
    /\ counters.settings = 0 /\ counters.faults = 0
    /\ pluginConfig.globalLaunchOptions # <<>>
    /\ lastDetection.appId = Y
    /\ \A d \in detections :
          d.action = "LaunchApp" /\ ~ListsApp(d.excludedGameIds, d.appId)
    /\ \E d \in detections : d.appId = X
    /\ \A i \in 1..Len(calls) : calls[i].detectionsBefore = 2

\* C18: after LaunchApp detections of the non-excluded apps X and then Y with no
\* ContinueGameAction in between, the pending slot holds Y; the
\* ContinueGameAction("CreatingProcess") that follows fetches, applies and
\* schedules the restoration for Y only, and the options of X are neither read
\* nor written.
C18_LastWriterWins ==
    \A X \in AppIds, Y \in AppIds :
        TwoDetections(X, Y) =>
            /\ calls = <<>> => currentLaunchingAppId = Y
            /\ (Len(calls) = 1 /\ calls[1].action = "CreatingProcess") =>
                  /\ calls[1].found = Y
                  /\ Len(fetches) = 1 /\ fetches[1].appId = Y
                  /\ \A k \in 1..Len(setterLog) : setterLog[k].appId = Y
                  /\ \A k \in ArmedRestores : timers[k].appIdToRestore = Y
                  /\ steamOptions[X] = initialOptions[X]
                  /\ fetches[1].state = "resolved" =>
                        /\ Cardinality(Applies) = 1
                        /\ Cardinality(ArmedRestores) + Cardinality(Restores) = 1

\* C18 witness: 440 then 730 were detected, one ContinueGameAction followed, and
\* 730 alone was fetched, written and restored.
C18_Witness ==
    /\ TwoDetections(440, 730)
    /\ Len(calls) = 1 /\ calls[1].action = "CreatingProcess"
    /\ calls[1].status = "returned"
    /\ Len(setterLog) = 2
    /\ setterLog[1].appId = 730 /\ setterLog[2].appId = 730
    /\ setterLog[2].by = "restore"
    /\ steamOptions = initialOptions

\* The restoration timer fires in this step and the setter throws.
RestoreThrows ==
    /\ Len(setterLog') = Len(setterLog) + 1
    /\ setterLog'[Len(setterLog')].by = "restore"
    /\ setterLog'[Len(setterLog')].threw

\* The throw stays inside the timer callback: the step ends with the timer gone
\* and nothing of the plugin or of the stored options changed.
C19_Step ==
    RestoreThrows =>
        /\ steamOptions' = steamOptions
        /\ hooksInjected' = hooksInjected /\ pluginConfig' = pluginConfig
        /\ localStorage' = localStorage
        /\ currentLaunchingAppId' = currentLaunchingAppId
        /\ originalLaunchOptions' = originalLaunchOptions
        /\ calls' = calls /\ fetches' = fetches
        /\ wrapDepth' = wrapDepth /\ detectCallbacks' = detectCallbacks
        /\ Len(timers') = Len(timers) - 1
        /\ Cardinality({k \in 1..Len(timers') : timers'[k].kind = "restore"})
              = Cardinality(ArmedRestores) - 1

\* App X was launched once, its merged options were applied and its
\* restoration failed; X has not been launched again.
FailedRestore(X) ==
    /\ counters.detect = 1
    /\ lastDetection.appId = X /\ lastDetection.action = "LaunchApp"
    /\ Len(setterLog) = 2
    /\ setterLog[1].by = "apply" /\ ~setterLog[1].threw /\ setterLog[1].appId = X
    /\ setterLog[2].by = "restore" /\ setterLog[2].threw

C19_StaysMerged ==
    \A X \in AppIds :
        FailedRestore(X) =>
            /\ steamOptions[X] = setterLog[1].options
            /\ \E g \in GlobalOptionChoices :
                   steamOptions[X] = mergeLaunchOptions(initialOptions[X], g)
            /\ setterLog[2].appId = X /\ setterLog[2].options = initialOptions[X]
            /\ ArmedRestores = {}

\* C19: when the setter throws as the restoration timer fires, the exception is
\* caught in the timer callback, no plugin state changes and the stored options
\* of the app stay equal to the merged string for as long as the app is not
\* launched again.
C19_FailedRestore == [][C19_Step]_vars /\ []C19_StaysMerged

\* C19 witness: the restoration of app 440 failed, and its stored options are
\* the merged string, not the original one.
C19_Witness ==
    /\ FailedRestore(440)
    /\ steamOptions[440] # initialOptions[440]
    /\ timers = <<>>
    /\ \A i \in 1..Len(calls) : calls[i].status = "returned"

C20_Step ==
    (DetectEvent /\ lastDetection'.action # "LaunchApp") =>
        /\ currentLaunchingAppId' = currentLaunchingAppId
        /\ originalLaunchOptions' = originalLaunchOptions
        /\ ~lastDetection'.readConfig
        /\ pluginConfig' = pluginConfig /\ localStorage' = localStorage
        /\ fetches' = fetches /\ setterLog' = setterLog /\ timers' = timers
        /\ calls' = calls /\ steamOptions' = steamOptions

\* C20: a launch-detection callback whose action is not "LaunchApp" neither
\* sets nor clears the pending slot, does not read the configuration and causes
\* no fetch, setter call or timer.
C20_ActionFilter == [][C20_Step]_vars

\* C20 witness: app 440 is still pending after a "ValidateApp" callback for the
\* excluded app 730.
C20_Witness ==
    /\ lastDetection # NoDetection
    /\ lastDetection.action = "ValidateApp" /\ lastDetection.appId = 730
    /\ ListsApp(lastDetection.excludedGameIds, 730)
    /\ ~lastDetection.readConfig
    /\ currentLaunchingAppId = 440

\* A step in which a settings field is edited / the merged options are applied.
SettingsEvent == counters'.settings = counters.settings + 1
ApplyEvent ==
    /\ Len(setterLog') = Len(setterLog) + 1
    /\ setterLog'[Len(setterLog')].by = "apply"

\* What is persisted is the in-memory configuration.
C21_WriteThrough == localStorage # NoStoredConfig => localStorage = pluginConfig

C21_Step ==
    /\ SettingsEvent =>
          /\ localStorage' = pluginConfig'
          /\ \A n \in DOMAIN pluginConfig' : localStorage'[n] = pluginConfig'[n]
          /\ pluginConfig' # pluginConfig
          /\ hooksInjected' = hooksInjected
          /\ wrapDepth' = wrapDepth /\ detectCallbacks' = detectCallbacks
    /\ (DetectEvent /\ lastDetection'.action = "LaunchApp") =>
          currentLaunchingAppId' =
              IF ListsApp(pluginConfig.excludedGameIds, lastDetection'.appId)
              THEN NoApp ELSE lastDetection'.appId
    /\ (ContinueEvent /\ Handled(NewCall)) =>
          /\ pluginConfig.globalLaunchOptions = <<>> =>
                (fetches' = fetches /\ NewCall.status = "returned")
          /\ Len(fetches') > Len(fetches) => pluginConfig.globalLaunchOptions # <<>>
    /\ ApplyEvent =>
          LET e == setterLog'[Len(setterLog')]
              f == calls[e.call].fetch
          IN  e.options = mergeLaunchOptions(steamOptions[fetches[f].appId],
                                             pluginConfig.globalLaunchOptions)

\* C21: every settings edit is persisted at once, field for field, and every
\* later event reads the edited values: the exclusion list when a launch is
\* detected, the global options when ContinueGameAction is handled, with the
\* hooks left as installed.
C21_LiveConfig == []C21_WriteThrough /\ [][C21_Step]_vars

\* C21 witness: app 730 was detected and pending, the exclusion list was then
\* edited to list it, and its next detection left the slot empty.
C21_Witness ==
    /\ counters.settings = 1 /\ counters.detect = 2
    /\ localStorage = pluginConfig
    /\ \A d \in detections : d.appId = 730 /\ d.action = "LaunchApp"
    /\ \E d \in detections : d.excludedGameIds = <<>>
    /\ lastDetection.excludedGameIds = Excl570and730
    /\ calls = <<>>
    /\ currentLaunchingAppId = NoApp

\* The invocations of fetchCurrentConfig that issued a backend call.
BackendCalls == {i \in 1..Len(configCalls) : configCalls[i].backendCall}

\* C22: any two backend calls are at least CONFIG_CACHE_TTL apart, however many
\* fetchCurrentConfig calls are made and also when one starts while an earlier
\* backend call is in flight; a call within the TTL of the cached fetch returns
\* that fetch's result; a failed backend call caches the defaults.
C22_BoundedBackendCalls ==
    /\ \A i \in BackendCalls, j \in BackendCalls :
          i < j => configCalls[j].now - configCalls[i].now >= CONFIG_CACHE_TTL
    /\ \A j \in 1..Len(configCalls) :
          (configCalls[j].state = "returned" /\ ~configCalls[j].backendCall) =>
              \E i \in BackendCalls :
                  /\ i < j
                  /\ configCalls[i].state = "returned"
                  /\ configCalls[j].now - configCalls[i].now < CONFIG_CACHE_TTL
                  /\ configCalls[j].result = configCalls[i].result
    /\ \A i \in BackendCalls :
          (configCalls[i].state = "returned" /\ configCalls[i].failed) =>
              configCalls[i].result = DefaultConfig

\* App Y is pending through a LaunchApp detection that arrived after
\* invocation i had started.
DetectedDuring(i, Y) ==
    /\ lastDetection # NoDetection
    /\ lastDetection.action = "LaunchApp" /\ lastDetection.appId = Y
    /\ ~ListsApp(lastDetection.excludedGameIds, Y)
    /\ counters.detect > calls[i].detectionsBefore
    /\ currentLaunchingAppId = Y

C23_Step ==
    \A i \in 1..Len(calls), Y \in AppIds :
        (/\ calls[i].status = "suspended"
         /\ Handled(calls[i])
         /\ DetectedDuring(i, Y)
         /\ Completes(i))
        => currentLaunchingAppId' = Y

\* C23: when a LaunchApp detection of a non-excluded app Y arrives while an
\* earlier ContinueGameAction("CreatingProcess") is suspended on its fetch, the
\* pending slot still holds Y when that earlier invocation finishes.
C23_NoLostLaunch == [][C23_Step]_vars

\* The launch detection invocation i belongs to: the latest one before it.
DetectionOf(i) == calls[i].detectionsBefore

\* C24: a launch detection leads to at most one fetch, at most one apply call
\* and at most one restoration timer, also when two
\* ContinueGameAction("CreatingProcess") calls arrive before the first has
\* finished; the setter is never called with a missing or non-numeric app id.
C24_OneCyclePerLaunch ==
    /\ \A f \in 1..Len(fetches), g \in 1..Len(fetches) :
          f # g => DetectionOf(fetches[f].call) # DetectionOf(fetches[g].call)
    /\ \A k \in Applies, l \in Applies :
          k # l => DetectionOf(setterLog[k].call) # DetectionOf(setterLog[l].call)
    /\ \A k \in ArmedRestores, l \in ArmedRestores :
          k # l => DetectionOf(timers[k].call) # DetectionOf(timers[l].call)
    /\ \A k \in 1..Len(setterLog) : setterLog[k].appId \in AppIds

C25_Step ==
    (ContinueEvent /\ Handled(NewCall) /\ pluginConfig.globalLaunchOptions = <<>>) =>
        /\ fetches' = fetches /\ NewCall.fetch = 0
        /\ setterLog' = setterLog
        /\ timers' = timers
        /\ steamOptions' = steamOptions
        /\ currentLaunchingAppId' = NoApp
        /\ originalLaunchOptions' = NULL
        /\ NewCall.status = "returned"
        /\ NewCall.delegated = << <<NewCall.gameActionId, NewCall.action>> >>
        /\ NewCall.returned = OriginalResult(NewCall.gameActionId, NewCall.action)

\* An invocation that started no fetch never calls the setter and never has a
\* timer.
C25_NoLateEffect ==
    /\ \A k \in 1..Len(setterLog) : calls[setterLog[k].call].fetch # 0
    /\ \A k \in 1..Len(timers) : calls[timers[k].call].fetch # 0

\* C25: a ContinueGameAction("CreatingProcess") that finds app X pending while
\* the global options are empty starts no fetch, calls no setter, arms no timer
\* and leaves X's stored options unchanged; the slot is cleared and the
\* original handler invoked.
C25_EmptyGlobalOptions == [][C25_Step]_vars /\ []C25_NoLateEffect

\* C25 witness: app 440 was pending with no global options configured; the
\* invocation returned through the original handler, nothing was fetched or
\* written and the slot is empty.
C25_Witness ==
    /\ pluginConfig.globalLaunchOptions = <<>>
    /\ counters.settings = 0 /\ counters.faults = 0
    /\ Len(calls) = 1
    /\ Handled(calls[1]) /\ calls[1].found = 440
    /\ calls[1].status = "returned" /\ Len(calls[1].delegated) = 1
    /\ fetches = <<>> /\ setterLog = <<>> /\ timers = <<>>
    /\ steamOptions = initialOptions
    /\ currentLaunchingAppId = NoApp

\* C26: unregister is invoked at most once for each callback registration made
\* by a fetch, and the fetch's timer does nothing once the callback has
\* delivered the options.
C26_SingleTeardown ==
    \A f \in 1..Len(fetches) : fetches[f].unregisterCalls <= 1

====
